---- MODULE Spec2Model ----
(***************************************************************************)
(* Model of backend/sandbox/sandbox.py: the get-or-start sandbox resolver, *)
(* the supervision session starter, the sandbox creator and the lazily     *)
(* resolving, caching tool base class.                                     *)
(*                                                                         *)
(* The sandbox provider (daytona) and the project store are the            *)
(* environment: every operation on them either succeeds or raises, and the *)
(* sandbox states and the project record may change between any two steps. *)
(* All coroutines run on one event loop: a coroutine gives up the loop     *)
(* only at an await that suspends (the two store awaits of                 *)
(* _ensure_sandbox); the provider calls are blocking calls.                *)
(***************************************************************************)
EXTENDS Naturals, Sequences, FiniteSets

\* ---------------------------------------------------------------- bounds
MaxCalls == 3       \* calls made in one behaviour
MaxChanges == 1     \* changes made by the environment in one behaviour

\* ---------------------------------------------------------------- values
None == "None"

SandboxIds == {"s1", "s2"}
Instances == {"t1"}
\* The tasks of the event loop; each makes one call at a time.
Calls == {1, 2}

\* WorkspaceState as get_or_start_sandbox distinguishes it, and "absent" for
\* an id the provider holds no sandbox for.
ARCHIVED == "archived"
STOPPED == "stopped"
STARTED == "started"
UNKNOWN == "unknown"
WorkspaceState == {ARCHIVED, STOPPED, STARTED, UNKNOWN}

session_id == "supervisord-session"

\* A Sandbox object: the id of the sandbox it refers to, and which object
\* it is (every get_current_sandbox and every create returns a new object).
NoSandbox == [id |-> None, gen |-> 0]
Sandbox(id, g) == [id |-> id, gen |-> g]

\* What the select on table 'projects' returns: no row, or a row whose
\* 'sandbox' column is missing from the dict ("absent"), is null ("null"), or
\* is a dict with the given 'id' and 'pass' (None when the key is missing).
NoRow == [row |-> FALSE, sandbox |-> "absent", id |-> None, pass |-> None]
Row(kind, id, pass) == [row |-> TRUE, sandbox |-> kind, id |-> id, pass |-> pass]
ProjectRecords ==
    { NoRow,
      Row("absent", None, None),
      Row("null", None, None),
      Row("dict", "", "pw1"),
      Row("dict", "s1", "pw1"),
      Row("dict", "s2", "pw2") }

NoErr == [type |-> None, op |-> None]
Raised(type, op) == [type |-> type, op |-> op]

\* One entry of a call's trace of provider and store operations: the
\* operation, the sandbox id and the Sandbox object it is made on or returns,
\* and whether it returned (ok) or raised.
\* The two operations of start_supervisord_session name the session, and
\* the command is issued with var_async=True.
Op(name, id, g, ok) ==
    [ op |-> name, id |-> id, gen |-> g, ok |-> ok,
      session |-> IF name \in {"create_session", "execute_session_command"}
                  THEN session_id ELSE None,
      var_async |-> (name = "execute_session_command") ]

\* What the operation named op raises when it fails.
ErrorOf(op) == Raised(IF op \in {"db.client", "select"} THEN "StoreError"
                                                        ELSE "ProviderError", op)

IdleCall ==
    [ kind |-> None, n |-> 0, inst |-> None, sandbox_id |-> None,
      pc |-> "idle", project |-> NoRow, first |-> NoSandbox,
      state |-> None, sandbox |-> NoSandbox, pre |-> << >>,
      ret |-> NoSandbox, retid |-> None, err |-> NoErr, log |-> << >>,
      memo |-> NoSandbox ]

VARIABLES
    provider,           \* daytona: sandbox id -> state, or "absent"
    sessions,           \* daytona: sandbox id -> sessions created on it
    projects,           \* the row of table 'projects' for the project id
    self_sandbox,       \* instance -> self._sandbox
    self_sandbox_id,    \* instance -> self._sandbox_id
    self_sandbox_pass,  \* instance -> self._sandbox_pass
    urls_printed,       \* SandboxToolsBase._urls_printed
    calls,              \* call -> its frame: position, locals, outcome
    running,            \* the call that holds the event loop, or 0
    resolved,           \* instance -> the sandbox _ensure_sandbox returned first
    resolved_from,      \* instance -> the row read by the call that set self._sandbox
    start_requests,     \* sandbox id -> the start requests issued, and raised
    ncalls,             \* calls made so far
    changes             \* changes made by the environment so far

vars == << provider, sessions, projects, self_sandbox,
           self_sandbox_id, self_sandbox_pass, urls_printed, calls, running,
           resolved, resolved_from, start_requests, ncalls, changes >>

daytona == << provider, sessions >>
cache == << self_sandbox, self_sandbox_id, self_sandbox_pass >>
\* What only records the past.
history == << resolved, ncalls, changes >>
\* What a frame sees of the provider when it enters get_or_start_sandbox.
Snapshot == << provider, sessions, start_requests >>

Init ==
    /\ provider \in { [s1 |-> STOPPED, s2 |-> "absent"],
                       [s1 |-> ARCHIVED, s2 |-> "absent"],
                       [s1 |-> STOPPED, s2 |-> STARTED] }
    /\ sessions = [s \in SandboxIds |-> 0]
    /\ projects = Row("dict", "s1", "pw1")
    /\ self_sandbox = [i \in Instances |-> NoSandbox]
    /\ self_sandbox_id = [i \in Instances |-> None]
    /\ self_sandbox_pass = [i \in Instances |-> None]
    /\ urls_printed = FALSE
    /\ calls = [c \in Calls |-> IdleCall]
    /\ running = 0
    /\ resolved = [i \in Instances |-> NoSandbox]
    /\ resolved_from = [i \in Instances |-> NoRow]
    /\ start_requests = [s \in SandboxIds |-> [issued |-> 0, raised |-> 0]]
    /\ ncalls = 0
    /\ changes = 0


\* ------------------------------------------------------------- frames
Frame(c) == calls[c]

\* No call has just ended with its result still to be taken by its caller.
Quiet == \A c \in Calls : calls[c].pc # "done"

\* A call may be made when the loop is free; it gets the first free frame.
CanCall(c) ==
    /\ Quiet
    /\ running = 0
    /\ ncalls < MaxCalls
    /\ calls[c].pc = "idle"
    /\ \A d \in Calls : d < c => calls[d].pc # "idle"

NewCall(kind) == [IdleCall EXCEPT !.kind = kind, !.n = ncalls + 1]

\* The object the k-th fetch (or the create) of the call of frame f returns.
Fresh(f, k) == 2 * f.n - 2 + k

Log(f, e) == [f EXCEPT !.log = Append(@, e)]

\* (mutant) the error is wrapped in another one before it is raised.
RaiseWrapped(f, e) ==
    [f EXCEPT !.pc = "done", !.err = Raised("SandboxError", e.op)]

\* except Exception as e: logger.error(...); raise e -- the frame ends with
\* the error the operation raised.
Raise(f, e) == [f EXCEPT !.pc = "done", !.err = e]

\* (mutant) every sandbox that is not started is started.
NeedsStartUnlessStarted(st) == st # STARTED

\* if sandbox.instance.state in {WorkspaceState.ARCHIVED, WorkspaceState.STOPPED}
NeedsStart(st) == st \in {ARCHIVED, STOPPED}

\* (mutant) the sandbox is started whatever its state.
AfterFetchAlwaysStart(st) == "start"
\* (mutant) the handle is not fetched again after the start.
AfterStartNoRefetch == "session"

\* Where get_or_start_sandbox goes after each provider operation returned.
AfterFetch(st) == IF NeedsStart(st) THEN "start" ELSE "ready"
AfterStart == "refetch"
AfterRefetch == "session"

\* (mutant) the supervisor command is not issued.
AfterCreateSessionNoCommand == "ready"
\* (mutant) the sandbox is returned before its supervision session is started.
AfterCreateNoSession == "ready"

\* Where start_supervisord_session goes after create_session returned.
AfterCreateSession == "exec"
\* Where a frame goes after start_supervisord_session returned.
AfterSupervisord == "ready"
\* Where create_sandbox goes after daytona.create returned.
AfterCreate == "session"

\* if not project.data / if not sandbox_info.get('id'): the error the row
\* read makes _ensure_sandbox raise, if any.
Resolution(p) ==
    IF ~p.row THEN Raised("ValueError", "project not found")
    ELSE IF p.sandbox = "null" THEN Raised("AttributeError", "sandbox_info.get")
    ELSE IF p.id \in {None, ""} THEN Raised("ValueError", "no sandbox")
    ELSE NoErr

\* if self._sandbox is None
IsCached(i) == self_sandbox[i] # NoSandbox

\* The handle get_or_start_sandbox returns: the local variable sandbox.
Returned(f) == f.sandbox

Set(c, f) == calls' = [calls EXCEPT ![c] = f]

\* get_preview_link(6080) and get_preview_link(8080) on self._sandbox, when
\* the links were not printed yet: the frames the three outcomes leave.
PreviewLinks(f, sb) ==
    LET vnc(ok) == Op("get_preview_link(6080)", sb.id, sb.gen, ok)
        web(ok) == Op("get_preview_link(8080)", sb.id, sb.gen, ok)
    IN  { [Log(Log(f, vnc(TRUE)), web(TRUE)) EXCEPT !.pc = "done", !.ret = sb],
          Raise(Log(f, vnc(FALSE)), ErrorOf(vnc(FALSE).op)),
          Raise(Log(Log(f, vnc(TRUE)), web(FALSE)), ErrorOf(web(FALSE).op)) }

\* The step of frame c that leaves it as g. A frame that is through with
\* the provider ("ready") returns its sandbox: get_or_start_sandbox and
\* create_sandbox to their caller; in _ensure_sandbox the handle is stored
\* in self._sandbox, the preview links are printed once per process, and
\* self._sandbox is returned. A frame that is not done keeps the loop.
Go(c, g) ==
    IF g.pc = "ready" /\ g.kind = "_ensure_sandbox"
    THEN /\ self_sandbox' = [self_sandbox EXCEPT ![g.inst] = Returned(g)]
         /\ resolved_from' = [resolved_from EXCEPT ![g.inst] = g.project]
         /\ running' = 0
         /\ IF urls_printed
            THEN /\ Set(c, [g EXCEPT !.pc = "done", !.ret = self_sandbox'[g.inst]])
                 /\ UNCHANGED urls_printed
            ELSE \E h \in PreviewLinks(g, self_sandbox'[g.inst]) :
                    /\ Set(c, h)
                    /\ urls_printed' = (h.err = NoErr)
    ELSE /\ IF g.pc = "ready"
            THEN Set(c, [g EXCEPT !.pc = "done", !.ret = Returned(g)])
            ELSE Set(c, g)
         /\ running' = IF g.pc \in {"ready", "done"} THEN 0 ELSE c
         /\ UNCHANGED << self_sandbox, resolved_from, urls_printed >>

\* ------------------------------------------------- get_or_start_sandbox
\* sandbox = daytona.get_current_sandbox(sandbox_id) and the test of
\* sandbox.instance.state, in the frame f that calls it for id.
Fetch(c, f, id) ==
    LET sb == Sandbox(id, Fresh(f, 1)) IN
    /\ \/ /\ provider[id] # "absent"
          /\ Go(c, [Log(f, Op("get_current_sandbox", id, sb.gen, TRUE))
                      EXCEPT !.sandbox_id = id, !.pre = Snapshot,
                             !.first = sb, !.state = provider[id],
                             !.sandbox = sb,
                             !.pc = AfterFetch(provider[id])])
       \/ Go(c, Raise([Log(f, Op("get_current_sandbox", id, 0, FALSE))
                          EXCEPT !.sandbox_id = id, !.pre = Snapshot],
                      ErrorOf("get_current_sandbox")))
    /\ UNCHANGED << daytona, projects, start_requests, resolved, changes >>

\* A direct call get_or_start_sandbox(id): a coroutine with no suspending
\* await, so it keeps the loop until it returns or raises.
GetOrStartSandbox(c, id) ==
    /\ CanCall(c)
    /\ Fetch(c, NewCall("get_or_start_sandbox"), id)
    /\ ncalls' = ncalls + 1
    /\ UNCHANGED << self_sandbox_id, self_sandbox_pass >>

\* daytona.start(sandbox): on success the sandbox is started; a start that
\* raises leaves the sandbox as it was or in some other state.
Start(c) ==
    LET f == Frame(c)
        id == f.sandbox.id
    IN
    /\ running = c
    /\ f.pc = "start"
    /\ \/ /\ provider' = [provider EXCEPT ![id] = STARTED]
          /\ start_requests' = [start_requests EXCEPT ![id].issued = @ + 1]
          /\ Go(c, [Log(f, Op("start", id, f.sandbox.gen, TRUE))
                      EXCEPT !.pc = AfterStart])
       \/ /\ \E st \in {provider[id], UNKNOWN} :
                provider' = [provider EXCEPT ![id] = st]
          /\ start_requests' = [start_requests EXCEPT ![id].issued = @ + 1,
                                                      ![id].raised = @ + 1]
          /\ Go(c, Raise(Log(f, Op("start", id, f.sandbox.gen, FALSE)),
                         ErrorOf("start")))
    /\ UNCHANGED << sessions, projects, self_sandbox_id, self_sandbox_pass,
                    history >>

\* sandbox = daytona.get_current_sandbox(sandbox_id), after the start.
Refetch(c) ==
    LET f == Frame(c)
        id == f.sandbox_id
        sb == Sandbox(id, Fresh(f, 2))
    IN
    /\ running = c
    /\ f.pc = "refetch"
    /\ \/ /\ provider[id] # "absent"
          /\ Go(c, [Log(f, Op("get_current_sandbox", id, sb.gen, TRUE))
                      EXCEPT !.sandbox = sb, !.pc = AfterRefetch])
       \/ Go(c, Raise(Log(f, Op("get_current_sandbox", id, 0, FALSE)),
                      ErrorOf("get_current_sandbox")))
    /\ UNCHANGED << daytona, projects, self_sandbox_id, self_sandbox_pass,
                    start_requests, history >>

\* ------------------------------------------- start_supervisord_session
\* sandbox.process.create_session(session_id)
CreateSession(c) ==
    LET f == Frame(c)
        id == f.sandbox.id
    IN
    /\ running = c
    /\ f.pc = "session"
    /\ \/ /\ sessions' = [sessions EXCEPT ![id] = @ + 1]
          /\ Go(c, [Log(f, Op("create_session", id, f.sandbox.gen, TRUE))
                      EXCEPT !.pc = AfterCreateSession])
       \/ /\ sessions' = sessions
          /\ Go(c, Raise(Log(f, Op("create_session", id, f.sandbox.gen, FALSE)),
                         ErrorOf("create_session")))
    /\ UNCHANGED << provider, projects, self_sandbox_id, self_sandbox_pass,
                    start_requests, history >>

\* sandbox.process.execute_session_command(session_id,
\*     SessionExecuteRequest(command=..., var_async=True))
ExecuteSessionCommand(c) ==
    LET f == Frame(c)
        id == f.sandbox.id
    IN
    /\ running = c
    /\ f.pc = "exec"
    /\ \/ Go(c, [Log(f, Op("execute_session_command", id, f.sandbox.gen, TRUE))
                   EXCEPT !.pc = AfterSupervisord])
       \/ Go(c, Raise(Log(f, Op("execute_session_command", id, f.sandbox.gen,
                                FALSE)),
                      ErrorOf("execute_session_command")))
    /\ UNCHANGED << daytona, projects, self_sandbox_id, self_sandbox_pass,
                    start_requests, history >>

\* ------------------------------------------------------- create_sandbox
\* A call create_sandbox(password, sandbox_id), a plain function, and its
\* sandbox = daytona.create(params): the provider picks the id of the new
\* sandbox and returns it started.
CreateSandbox(c) ==
    LET f == [NewCall("create_sandbox") EXCEPT !.pre = Snapshot] IN
    /\ CanCall(c)
    /\ \/ \E id \in SandboxIds :
            /\ provider[id] = "absent"
            /\ provider' = [provider EXCEPT ![id] = STARTED]
            /\ Go(c, [Log(f, Op("create", id, Fresh(f, 1), TRUE))
                        EXCEPT !.sandbox = Sandbox(id, Fresh(f, 1)),
                               !.pc = AfterCreate])
       \/ /\ UNCHANGED provider
          /\ Go(c, Raise(Log(f, Op("create", None, 0, FALSE)),
                         ErrorOf("create")))
    /\ ncalls' = ncalls + 1
    /\ UNCHANGED << sessions, projects, self_sandbox_id, self_sandbox_pass,
                    start_requests, resolved, changes >>

\* ------------------------------------------------------ SandboxToolsBase
\* A call self._ensure_sandbox(): the test of self._sandbox runs at once; a
\* cached sandbox is returned, otherwise the call awaits the store.
EnsureSandbox(c, i) ==
    LET f == [NewCall("_ensure_sandbox") EXCEPT !.inst = i, !.memo = resolved[i]]
    IN
    /\ CanCall(c)
    /\ IF IsCached(i)
       THEN Set(c, [f EXCEPT !.pc = "done", !.ret = self_sandbox[i]])
       ELSE Set(c, [f EXCEPT !.pc = "select"])
    /\ ncalls' = ncalls + 1
    /\ UNCHANGED << daytona, projects, cache, resolved_from, urls_printed, running,
                    start_requests, resolved, changes >>

\* client = await self.thread_manager.db.client
\* project = await client.table('projects').select('*')
\*     .eq('project_id', self.project_id).execute()
\* The row is read now; the coroutine goes on with it when it is resumed.
Select(c) ==
    LET f == Frame(c)
        client(ok) == Op("db.client", None, 0, ok)
        select(ok) == Op("select", None, 0, ok)
    IN
    /\ Quiet
    /\ running = 0
    /\ f.pc = "select"
    /\ \/ Set(c, [Log(Log(f, client(TRUE)), select(TRUE))
                     EXCEPT !.project = projects, !.pc = "resolve"])
       \/ Set(c, Raise(Log(f, client(FALSE)), ErrorOf("db.client")))
       \/ Set(c, Raise(Log(Log(f, client(TRUE)), select(FALSE)),
                       ErrorOf("select")))
    /\ UNCHANGED << daytona, projects, cache, resolved_from, urls_printed, running,
                    start_requests, history >>

\* The checks of the row, then self._sandbox_id = sandbox_info['id'],
\* self._sandbox_pass = sandbox_info.get('pass') and the call of
\* get_or_start_sandbox(self._sandbox_id), which suspends nowhere.
Resolve(c) ==
    LET f == Frame(c)
        e == Resolution(f.project)
    IN
    /\ Quiet
    /\ running = 0
    /\ f.pc = "resolve"
    /\ IF e # NoErr
       THEN /\ Set(c, Raise(f, e))
            /\ UNCHANGED << daytona, projects, cache, resolved_from, urls_printed, running,
                            start_requests, resolved, changes >>
       ELSE /\ self_sandbox_id' = [self_sandbox_id EXCEPT ![f.inst] = f.project.id]
            /\ self_sandbox_pass' =
                    [self_sandbox_pass EXCEPT ![f.inst] = f.project.pass]
            /\ Fetch(c, f, f.project.id)
    /\ UNCHANGED ncalls

\* The property sandbox.
sandbox(i) ==
    IF self_sandbox[i] = NoSandbox
    THEN [NewCall("sandbox") EXCEPT !.inst = i, !.pc = "done",
                                    !.err = Raised("RuntimeError", "sandbox")]
    ELSE [NewCall("sandbox") EXCEPT !.inst = i, !.pc = "done",
                                    !.ret = self_sandbox[i]]

\* The property sandbox_id.
sandbox_id(i) ==
    IF self_sandbox_id[i] = None
    THEN [NewCall("sandbox_id") EXCEPT !.inst = i, !.pc = "done",
                                       !.err = Raised("RuntimeError", "sandbox_id")]
    ELSE [NewCall("sandbox_id") EXCEPT !.inst = i, !.pc = "done",
                                       !.retid = self_sandbox_id[i]]

\* A read of one of the two properties.
ReadProperty(c, i) ==
    /\ CanCall(c)
    /\ \/ Set(c, [sandbox(i) EXCEPT !.memo = resolved[i]])
       \/ Set(c, [sandbox_id(i) EXCEPT !.memo = resolved[i]])
    /\ ncalls' = ncalls + 1
    /\ UNCHANGED << daytona, projects, cache, resolved_from, urls_printed, running,
                    start_requests, resolved, changes >>

\* The caller takes what the call returned or raised, and the frame is
\* dropped.
Return(c) ==
    LET f == Frame(c) IN
    /\ f.pc = "done"
    /\ Set(c, IdleCall)
    /\ resolved' =
         IF f.kind = "_ensure_sandbox" /\ f.err = NoErr
                                      /\ resolved[f.inst] = NoSandbox
         THEN [resolved EXCEPT ![f.inst] = f.ret]
         ELSE resolved
    /\ UNCHANGED << daytona, projects, cache, resolved_from, urls_printed, running,
                    start_requests, ncalls, changes >>

\* ---------------------------------------------------------- environment
\* Something other than this program stops or starts a sandbox.
ProviderChange(id, st) ==
    /\ Quiet
    /\ changes < MaxChanges
    /\ provider[id] \notin {"absent", st}
    /\ provider' = [provider EXCEPT ![id] = st]
    /\ changes' = changes + 1
    /\ UNCHANGED << sessions, projects, cache, resolved_from, urls_printed,
                    calls, running, start_requests, resolved, ncalls >>

\* The project's row is written, or deleted.
ProjectChange(p) ==
    /\ Quiet
    /\ changes < MaxChanges
    /\ p # projects
    /\ projects' = p
    /\ changes' = changes + 1
    /\ UNCHANGED << daytona, cache, resolved_from, urls_printed, calls,
                    running, start_requests, resolved, ncalls >>

\* ------------------------------------------------------- specifications
Step(c) ==
    \/ \E id \in SandboxIds : GetOrStartSandbox(c, id)
    \/ Start(c)
    \/ Refetch(c)
    \/ CreateSession(c)
    \/ ExecuteSessionCommand(c)
    \/ CreateSandbox(c)
    \/ \E i \in Instances : EnsureSandbox(c, i)
    \/ Select(c)
    \/ Resolve(c)
    \/ \E i \in Instances : ReadProperty(c, i)
    \/ Return(c)

Program == \E c \in Calls : Step(c)

Next ==
    \/ Program
    \/ \E id \in SandboxIds, st \in {STOPPED, STARTED} : ProviderChange(id, st)
    \/ \E p \in ProjectRecords : ProjectChange(p)

Spec == Init /\ [][Next]_vars

\* The calls that resolve a sandbox, get_or_start_sandbox and
\* _ensure_sandbox, when nothing but they changes the state of a sandbox.
ResolveStep(c) ==
    \/ \E id \in SandboxIds : GetOrStartSandbox(c, id)
    \/ Start(c)
    \/ Refetch(c)
    \/ CreateSession(c)
    \/ ExecuteSessionCommand(c)
    \/ \E i \in Instances : EnsureSandbox(c, i)
    \/ Select(c)
    \/ Resolve(c)
    \/ Return(c)

NextUndisturbed ==
    \/ \E c \in Calls : ResolveStep(c)
    \/ \E p \in ProjectRecords : ProjectChange(p)

SpecUndisturbed == Init /\ [][NextUndisturbed]_vars

\* The callers of get_or_start_sandbox and create_sandbox other than the
\* tool base, and what else stops or starts a sandbox.
ProviderStep(c) ==
    \/ \E id \in SandboxIds : GetOrStartSandbox(c, id)
    \/ Start(c)
    \/ Refetch(c)
    \/ CreateSession(c)
    \/ ExecuteSessionCommand(c)
    \/ CreateSandbox(c)
    \/ Return(c)

NextProvider ==
    \/ \E c \in Calls : ProviderStep(c)
    \/ \E id \in SandboxIds, st \in {STOPPED, STARTED} : ProviderChange(id, st)

SpecProvider == Init /\ [][NextProvider]_vars

\* --------------------------------------------------------------- claims
Names(log) == [k \in 1..Len(log) |-> log[k].op]

IsPrefix(a, b) == Len(a) <= Len(b) /\ \A k \in 1..Len(a) : a[k] = b[k]

IsProviderOp(e) ==
    e.op \in {"get_current_sandbox", "start", "create_session",
              "execute_session_command", "create"}

\* The operations a frame made on the provider inside get_or_start_sandbox
\* or create_sandbox.
ProviderOps(f) == SelectSeq(f.log, IsProviderOp)

StartSequence ==
    << "get_current_sandbox", "start", "get_current_sandbox",
       "create_session", "execute_session_command" >>

StoreSequence == << "db.client", "select" >>
PreviewSequence == << "get_preview_link(6080)", "get_preview_link(8080)" >>

\* The whole sequences of operations a call of each kind may make.
Sequences(kind) ==
    LET gos == { << "get_current_sandbox" >>, StartSequence } IN
    IF kind = "get_or_start_sandbox" THEN gos
    ELSE IF kind = "create_sandbox"
    THEN { << "create", "create_session", "execute_session_command" >> }
    ELSE IF kind = "_ensure_sandbox"
    THEN { StoreSequence \o g \o p : g \in gos, p \in { << >>, PreviewSequence } }
    ELSE { << >> }

InGetOrStart(f) ==
    /\ f.kind \in {"get_or_start_sandbox", "_ensure_sandbox"}
    /\ f.first # NoSandbox

Returns(f) == f.pc = "done" /\ f.err = NoErr

\* C1: a get_or_start_sandbox that fetches a STOPPED or ARCHIVED handle makes
\* these provider operations and no others, in this order: start on the
\* fetched handle, a second fetch by id, create_session and then the
\* supervisor command on the re-fetched handle; and when it returns, it has
\* made all of them and returns the re-fetched handle, not the first one.
C1_StartSequence ==
    \A c \in Calls :
        LET f == calls[c]
            ops == ProviderOps(f)
        IN  (InGetOrStart(f) /\ f.state \in {STOPPED, ARCHIVED}) =>
            /\ IsPrefix(Names(ops), StartSequence)
            /\ ops[1] = Op("get_current_sandbox", f.sandbox_id, f.first.gen, TRUE)
            /\ Len(ops) >= 2 => (ops[2].id = f.first.id /\ ops[2].gen = f.first.gen)
            /\ Len(ops) >= 3 => ops[3].id = f.sandbox_id
            /\ (Len(ops) >= 3 /\ ops[3].ok) => ops[3].gen # f.first.gen
            /\ \A k \in 4..Len(ops) :
                    ops[k].id = f.sandbox_id /\ ops[k].gen = ops[3].gen
            /\ Returns(f) =>
                    /\ Names(ops) = StartSequence
                    /\ \A k \in 1..Len(ops) : ops[k].ok
                    /\ f.ret = Sandbox(f.sandbox_id, ops[3].gen)
                    /\ f.ret # f.first

C1_Witness ==
    \E c \in Calls :
        /\ calls[c].kind = "get_or_start_sandbox"
        /\ calls[c].state = ARCHIVED
        /\ Returns(calls[c])
        /\ Len(calls[c].log) = Len(StartSequence)

\* C2: a get_or_start_sandbox that fetches a handle whose state is neither
\* STOPPED nor ARCHIVED makes that one fetch and no other provider operation,
\* returns the handle fetched, and leaves the provider as it was.
C2_NoStart ==
    \A c \in Calls :
        LET f == calls[c] IN
        (InGetOrStart(f) /\ f.state \notin {STOPPED, ARCHIVED}) =>
            /\ ProviderOps(f) =
                    << Op("get_current_sandbox", f.sandbox_id, f.first.gen, TRUE) >>
            /\ f.pc = "done"
            /\ Snapshot = f.pre
            /\ f.kind = "get_or_start_sandbox" => Returns(f)
            /\ Returns(f) => f.ret = f.first

C2_Witness ==
    \E c \in Calls :
        /\ calls[c].kind = "get_or_start_sandbox"
        /\ calls[c].state = UNKNOWN
        /\ Returns(calls[c])
        /\ calls[c].ret = calls[c].first

\* C6: a provider or store operation that fails ends the call with the
\* error that operation raised: the operations of a call are made in their
\* one order, each at most once, none after one that failed, and the call
\* raises what the failed one raised.
C6_ErrorsPropagate ==
    \A c \in Calls :
        LET f == calls[c]
            n == Len(f.log)
        IN  /\ \E q \in Sequences(f.kind) : IsPrefix(Names(f.log), q)
            /\ \A k \in 1..n : ~f.log[k].ok =>
                    /\ k = n
                    /\ f.pc = "done"
                    /\ f.err = ErrorOf(f.log[k].op)
            /\ f.err.type \notin {None, "ValueError", "AttributeError", "RuntimeError"} =>
                    /\ n > 0
                    /\ ~f.log[n].ok
                    /\ f.err = ErrorOf(f.log[n].op)

C6_Witness ==
    \E c \in Calls :
        /\ calls[c].kind = "_ensure_sandbox"
        /\ calls[c].pc = "done"
        /\ calls[c].err = ErrorOf("start")
        /\ Names(calls[c].log) = StoreSequence \o << "get_current_sandbox", "start" >>

\* C8: create_sandbox makes provider create, create_session and the
\* supervisor command in this order and returns the sandbox only after all
\* three; a failed create ends it with no session created, and a failed
\* session start ends it with that error and no sandbox returned, the
\* sandbox being there at the provider.
C8_CreateOrder ==
    \A c \in Calls :
        LET f == calls[c]
            n == Len(f.log)
        IN  f.kind = "create_sandbox" =>
            /\ n >= 1
            /\ IsPrefix(Names(f.log),
                        << "create", "create_session", "execute_session_command" >>)
            /\ Returns(f) =>
                    /\ n = 3
                    /\ \A k \in 1..n : f.log[k].ok
                    /\ f.ret = Sandbox(f.log[1].id, f.log[1].gen)
            /\ ~f.log[1].ok =>
                    /\ n = 1
                    /\ f.pc = "done"
                    /\ f.err = ErrorOf("create")
                    /\ f.ret = NoSandbox
                    /\ Snapshot = f.pre
            /\ (n >= 2 /\ ~f.log[n].ok) =>
                    /\ f.pc = "done"
                    /\ f.err = ErrorOf(f.log[n].op)
                    /\ f.ret = NoSandbox
                    /\ provider[f.log[1].id] # "absent"
                    /\ f.pre[1][f.log[1].id] = "absent"

C8_Witness ==
    \E c \in Calls :
        /\ calls[c].kind = "create_sandbox"
        /\ calls[c].pc = "done"
        /\ calls[c].err = ErrorOf("create_session")
        /\ provider[calls[c].log[1].id] = STARTED

\* C9: start_supervisord_session creates the session 'supervisord-session'
\* on the handle and then issues the asynchronous supervisor command in that
\* session on the same handle; when create_session fails the command is not
\* issued, and the failure of either is raised to the caller.
C9_SessionBeforeCommand ==
    \A c \in Calls :
        LET f == calls[c]
            n == Len(f.log)
        IN  \A k \in 1..n :
            LET e == f.log[k] IN
            /\ e.op = "execute_session_command" =>
                    /\ k > 1
                    /\ f.log[k - 1] = Op("create_session", e.id, e.gen, TRUE)
                    /\ e.session = "supervisord-session"
                    /\ f.log[k - 1].session = "supervisord-session"
                    /\ e.var_async
                    /\ e.gen = f.sandbox.gen
            /\ (e.op = "create_session" /\ e.ok) =>
                    \/ k = n /\ f.pc = "exec"
                    \/ k < n /\ f.log[k + 1].op = "execute_session_command"
            /\ (e.op \in {"create_session", "execute_session_command"} /\ ~e.ok) =>
                    /\ k = n
                    /\ f.pc = "done"
                    /\ f.err = ErrorOf(e.op)

C9_Witness ==
    \E c \in Calls :
        /\ calls[c].pc = "done"
        /\ calls[c].err = NoErr
        /\ Len(calls[c].log) >= 2
        /\ calls[c].log[Len(calls[c].log)].op = "execute_session_command"

\* C3 (as claimed): once _ensure_sandbox has returned a handle on an
\* instance, every call of _ensure_sandbox made on it afterwards returns that
\* handle (at the least, a handle to the same sandbox) and makes no store
\* lookup and no provider operation.
C3_Memoized ==
    \A c \in Calls :
        LET f == calls[c] IN
        (f.kind = "_ensure_sandbox" /\ f.memo # NoSandbox) =>
            /\ Returns(f)
            /\ f.ret.id = f.memo.id
            /\ f.log = << >>

\* C4 (as claimed): when the lookup returns no row, or a row with no
\* sandbox descriptor or with a descriptor with no id or an empty one,
\* _ensure_sandbox raises a ValueError, makes no provider call and leaves
\* the cached handle, id and credential unset.
C4_MissingSandbox ==
    \A c \in Calls :
        LET f == calls[c]
            p == f.project
        IN  (/\ f.kind = "_ensure_sandbox"
             /\ f.pc = "done"
             /\ Names(f.log) = StoreSequence
             /\ f.log[2].ok
             /\ (~p.row \/ p.sandbox # "dict" \/ p.id \in {None, ""})) =>
            /\ f.err.type = "ValueError"
            /\ self_sandbox[f.inst] = NoSandbox
            /\ self_sandbox_id[f.inst] = None
            /\ self_sandbox_pass[f.inst] = None

\* C5 (as claimed): while no _ensure_sandbox has returned on an instance,
\* reading sandbox and reading sandbox_id raise a RuntimeError; once one
\* has, they return the resolved handle and its id.
C5_FailFast ==
    \A c \in Calls :
        LET f == calls[c] IN
        (f.kind \in {"sandbox", "sandbox_id"} /\ f.pc = "done") =>
            IF f.memo = NoSandbox
            THEN f.err.type = "RuntimeError"
            ELSE /\ f.err = NoErr
                 /\ f.kind = "sandbox" => f.ret = f.memo
                 /\ f.kind = "sandbox_id" => f.retid = f.memo.id

\* C10 (as claimed): whenever self._sandbox is set, self._sandbox_id is set
\* and is the id the handle was obtained for, and self._sandbox_pass comes
\* from the row that id was read from.
C10_CacheConsistent ==
    \A i \in Instances :
        self_sandbox[i] # NoSandbox =>
            /\ self_sandbox_id[i] # None
            /\ self_sandbox[i].id = self_sandbox_id[i]
            /\ resolved_from[i].id = self_sandbox_id[i]
            /\ resolved_from[i].pass = self_sandbox_pass[i]

\* C7 (as claimed): when nothing but this program stops a sandbox, over all
\* the calls made for one sandbox id the start request is issued at most
\* once, the supervision session is created at most once, and every call
\* that returns returns a handle to that sandbox.
C7_StartedOnce ==
    /\ \A id \in SandboxIds :
            /\ start_requests[id].issued <= 1
            /\ sessions[id] <= 1
    /\ \A c \in Calls :
            (InGetOrStart(calls[c]) /\ Returns(calls[c])) =>
                calls[c].ret.id = calls[c].sandbox_id

\* C7 (amended): when nothing but this program stops a sandbox, over all the
\* calls made for one sandbox id at most one start request returns (one
\* that raised may be followed by another), the supervision session is
\* created at most once, and every call that returns returns a handle to
\* that sandbox.
C7_StartedOnceUnlessRaised ==
    /\ \A id \in SandboxIds :
            /\ start_requests[id].issued - start_requests[id].raised \in {0, 1}
            /\ sessions[id] <= 1
    /\ \A c \in Calls :
            (InGetOrStart(calls[c]) /\ Returns(calls[c])) =>
                calls[c].ret.id = calls[c].sandbox_id

C7_Witness ==
    \E id \in SandboxIds :
        /\ start_requests[id] = [issued |-> 2, raised |-> 1]
        /\ sessions[id] = 1
        /\ \E c \in Calls :
                /\ calls[c].kind = "_ensure_sandbox"
                /\ Returns(calls[c])
                /\ calls[c].ret.id = id
                /\ calls[c].state = STARTED

====
